---- MODULE Spec2Model ----
(***************************************************************************)
(* Model of the data-state engine of @reactorui/datagrid: the useDataGrid  *)
(* hook (search / filter / sort / paginate pipeline, continuation-token    *)
(* server pagination, row selection) and the utilities it calls            *)
(* (compareValues, sortData, mapServerResponse, createApiRequest).         *)
(*                                                                         *)
(* JavaScript strings are sequences of one-character strings; a JavaScript *)
(* value is a record [t, s, n, b] tagged by its runtime type.              *)
(***************************************************************************)
EXTENDS Integers, Sequences, FiniteSets, TLC

\* ------------------------------------------------------------------------
\* Bounds of the model
\* ------------------------------------------------------------------------
MaxInflight == 2
MaxHistory == 3
MaxFilters == 2
MaxPageJump == 2

\* ------------------------------------------------------------------------
\* JavaScript values and strings
\* ------------------------------------------------------------------------
Null == [t |-> "null", s |-> <<>>, n |-> 0, b |-> FALSE]
Str(s) == [t |-> "str", s |-> s, n |-> 0, b |-> FALSE]
Num(n) == [t |-> "num", s |-> <<>>, n |-> n, b |-> FALSE]
Bool(b) == [t |-> "bool", s |-> <<>>, n |-> 0, b |-> b]

Digits == <<"0", "1", "2", "3", "4", "5", "6", "7", "8", "9">>
Letters == <<"a", "b", "c", "d", "e", "f", "g", "h", "i", "j", "k", "l", "m",
             "n", "o", "p", "q", "r", "s", "t", "u", "v", "w", "x", "y", "z">>
Uppers == <<"A", "B", "C", "D", "E", "F", "G", "H", "I", "J", "K", "L", "M",
            "N", "O", "P", "Q", "R", "S", "T", "U", "V", "W", "X", "Y", "Z">>

IndexOf(seq, c) == IF \E i \in 1..Len(seq) : seq[i] = c
                   THEN CHOOSE i \in 1..Len(seq) : seq[i] = c
                   ELSE 0

IsDigit(c) == IndexOf(Digits, c) > 0
DigitVal(c) == IndexOf(Digits, c) - 1
IsAlnum(c) == IsDigit(c) \/ IndexOf(Letters, c) > 0 \/ IndexOf(Uppers, c) > 0

\* String.prototype.toLowerCase
LowerChar(c) == IF IndexOf(Uppers, c) > 0 THEN Letters[IndexOf(Uppers, c)] ELSE c
toLowerCase(s) == [i \in 1..Len(s) |-> LowerChar(s[i])]

\* Number.prototype.toString for the non-negative integers of the model
RECURSIVE NumToStr(_)
NumToStr(n) == IF n < 10 THEN <<Digits[n + 1]>>
               ELSE NumToStr(n \div 10) \o <<Digits[(n % 10) + 1]>>

\* String(value) / value.toString() of a non-null value
toString(v) == CASE v.t = "str" -> v.s
                 [] v.t = "num" -> NumToStr(v.n)
                 [] v.t = "bool" -> IF v.b THEN <<"t", "r", "u", "e">>
                                    ELSE <<"f", "a", "l", "s", "e">>
                 [] OTHER -> <<"n", "u", "l", "l">>

\* String.prototype.includes / startsWith / endsWith
includes(s, sub) == \E i \in 0..(Len(s) - Len(sub)) :
                        SubSeq(s, i + 1, i + Len(sub)) = sub
startsWith(s, sub) == Len(sub) <= Len(s) /\ SubSeq(s, 1, Len(sub)) = sub
endsWith(s, sub) == Len(sub) <= Len(s)
                    /\ SubSeq(s, Len(s) - Len(sub) + 1, Len(s)) = sub

\* A parsed number: NaN or a value
NaN == [nan |-> TRUE, v |-> 0]
Fin(n) == [nan |-> FALSE, v |-> n]

\* length of the leading run of decimal digits of s
RECURSIVE DigitRun(_)
DigitRun(s) == IF s = <<>> \/ ~IsDigit(Head(s)) THEN 0 ELSE 1 + DigitRun(Tail(s))

RECURSIVE DigitsToNum(_)
DigitsToNum(s) == IF s = <<>> THEN 0
                  ELSE 10 * DigitsToNum(SubSeq(s, 1, Len(s) - 1)) + DigitVal(s[Len(s)])

\* parseFloat(value): the argument is converted to a string, its longest
\* numeric prefix is parsed, NaN when there is none
parseFloat(v) == IF v.t = "num" THEN Fin(v.n)
                 ELSE LET s == toString(v) IN
                      IF DigitRun(s) = 0 THEN NaN
                      ELSE Fin(DigitsToNum(SubSeq(s, 1, DigitRun(s))))

\* new Date(value).getTime(): a number is the instant itself; a string of
\* exactly four digits is an ISO year, whose instant grows with the year
\* (modelled by the year); any other string of the model is an invalid date
DateTime(v) == CASE v.t = "num" -> Fin(v.n)
                 [] v.t = "str" /\ Len(v.s) = 4 /\ DigitRun(v.s) = 4 -> Fin(DigitsToNum(v.s))
                 [] OTHER -> NaN

\* Boolean(value)
ToBoolean(v) == CASE v.t = "bool" -> v.b
                  [] v.t = "num" -> v.n # 0
                  [] v.t = "str" -> v.s # <<>>
                  [] OTHER -> FALSE

\* an array and an object of a parsed JSON reply
Arr(items) == [t |-> "arr", s |-> items, n |-> 0, b |-> FALSE]
Obj(fields) == [t |-> "obj", f |-> fields]

\* Number(value) || 0: a string counts when it is empty or all digits; an
\* array of row objects, an object and undefined give NaN or 0, hence 0
NumberOrZero(v) == CASE v.t = "num" -> v.n
                     [] v.t = "bool" -> IF v.b THEN 1 ELSE 0
                     [] v.t = "str" /\ DigitRun(v.s) = Len(v.s) -> DigitsToNum(v.s)
                     [] OTHER -> 0

\* IEEE comparisons: every comparison with NaN is false
NumEq(x, y) == ~x.nan /\ ~y.nan /\ x.v = y.v
NumGt(x, y) == ~x.nan /\ ~y.nan /\ x.v > y.v
NumGte(x, y) == ~x.nan /\ ~y.nan /\ x.v >= y.v
NumLt(x, y) == ~x.nan /\ ~y.nan /\ x.v < y.v
NumLte(x, y) == ~x.nan /\ ~y.nan /\ x.v <= y.v

NumericOp(x, y, operator) == CASE operator = "eq" -> NumEq(x, y)
                               [] operator = "gt" -> NumGt(x, y)
                               [] operator = "gte" -> NumGte(x, y)
                               [] operator = "lt" -> NumLt(x, y)
                               [] operator = "lte" -> NumLte(x, y)
                               [] OTHER -> NumEq(x, y)

\* utils/index.ts compareValues, past the null check
CompareDefined(dataValue, filterValue, operator, dataType) ==
    CASE dataType = "string" ->
           LET str == toLowerCase(toString(dataValue))
               filter == toLowerCase(toString(filterValue))
           IN CASE operator = "eq" -> str = filter
                [] operator = "contains" -> includes(str, filter)
                [] operator = "startsWith" -> startsWith(str, filter)
                [] operator = "endsWith" -> endsWith(str, filter)
                [] OTHER -> includes(str, filter)
      [] dataType = "number" ->
           NumericOp(parseFloat(dataValue), parseFloat(filterValue), operator)
      [] dataType \in {"date", "datetime"} ->
           NumericOp(DateTime(dataValue), DateTime(filterValue), operator)
      [] dataType = "boolean" ->
           ToBoolean(dataValue) = ToBoolean(filterValue)
      [] OTHER ->
           includes(toLowerCase(toString(dataValue)),
                    toLowerCase(toString(filterValue)))

\* compareValues without the null check
compareValuesNullCompared(dataValue, filterValue, operator, dataType) ==
    CompareDefined(dataValue, filterValue, operator, dataType)

\* utils/index.ts compareValues
compareValues(dataValue, filterValue, operator, dataType) ==
    IF dataValue.t = "null" THEN FALSE
    ELSE CompareDefined(dataValue, filterValue, operator, dataType)

\* ------------------------------------------------------------------------
\* Sorting
\* ------------------------------------------------------------------------
\* collation rank of a character of a lower-cased string: digits before letters
CharRank(c) == IF IsDigit(c) THEN DigitVal(c) ELSE 10 + IndexOf(Letters, c)

Sign(x) == IF x < 0 THEN -1 ELSE IF x > 0 THEN 1 ELSE 0

\* String.prototype.localeCompare(other, undefined, {numeric: true}) on
\* lower-cased strings: runs of digits compare by their numeric value
RECURSIVE localeCompare(_, _)
localeCompare(a, b) ==
    IF a = <<>> /\ b = <<>> THEN 0
    ELSE IF a = <<>> THEN -1
    ELSE IF b = <<>> THEN 1
    ELSE IF IsDigit(Head(a)) /\ IsDigit(Head(b))
         THEN LET ra == DigitRun(a)
                  rb == DigitRun(b)
                  na == DigitsToNum(SubSeq(a, 1, ra))
                  nb == DigitsToNum(SubSeq(b, 1, rb))
              IN IF na # nb THEN Sign(na - nb)
                 ELSE localeCompare(SubSeq(a, ra + 1, Len(a)), SubSeq(b, rb + 1, Len(b)))
    ELSE IF CharRank(Head(a)) # CharRank(Head(b))
         THEN Sign(CharRank(Head(a)) - CharRank(Head(b)))
    ELSE localeCompare(Tail(a), Tail(b))

\* the comparator without the negation for 'desc'
SortCompareIgnoresDirection(a, b, sortColumn, direction) ==
    LET aVal == a[sortColumn]
        bVal == b[sortColumn]
    IN IF aVal.t = "null" /\ bVal.t = "null" THEN 0
       ELSE IF aVal.t = "null" THEN 1
       ELSE IF bVal.t = "null" THEN -1
       ELSE localeCompare(toLowerCase(toString(aVal)), toLowerCase(toString(bVal)))

\* the comparator handed to Array.prototype.sort by sortData
SortCompare(a, b, sortColumn, direction) ==
    LET aVal == a[sortColumn]
        bVal == b[sortColumn]
    IN IF aVal.t = "null" /\ bVal.t = "null" THEN 0
       ELSE IF aVal.t = "null" THEN 1
       ELSE IF bVal.t = "null" THEN -1
       ELSE LET result == localeCompare(toLowerCase(toString(aVal)),
                                        toLowerCase(toString(bVal)))
            IN IF direction = "desc" THEN -result ELSE result

\* Array.prototype.sort is stable: insertion after the last element that
\* does not compare greater
RECURSIVE InsertSorted(_, _, _, _)
InsertSorted(sorted, x, sortColumn, direction) ==
    IF sorted = <<>> THEN <<x>>
    ELSE IF SortCompare(sorted[Len(sorted)], x, sortColumn, direction) <= 0
         THEN Append(sorted, x)
         ELSE Append(InsertSorted(SubSeq(sorted, 1, Len(sorted) - 1), x,
                                  sortColumn, direction),
                     sorted[Len(sorted)])

RECURSIVE StableSort(_, _, _)
StableSort(data, sortColumn, direction) ==
    IF data = <<>> THEN <<>>
    ELSE InsertSorted(StableSort(SubSeq(data, 1, Len(data) - 1), sortColumn, direction),
                      data[Len(data)], sortColumn, direction)

\* utils/index.ts sortData
sortData(data, sortColumn, direction) ==
    IF sortColumn = "" THEN data ELSE StableSort(data, sortColumn, direction)

\* ------------------------------------------------------------------------
\* Rows and datasets
\* ------------------------------------------------------------------------
\* the enumerable fields of a row, in insertion order (ref is the identity of
\* the row object and is not a field)
Columns == <<"name", "age", "active", "joined">>

KeyChars(key) == CASE key = "name" -> <<"n", "a", "m", "e">>
                   [] key = "age" -> <<"a", "g", "e">>
                   [] key = "active" -> <<"a", "c", "t", "i", "v", "e">>
                   [] OTHER -> <<"j", "o", "i", "n", "e", "d">>

Row(ref, name, age, active, joined) ==
    [ref |-> ref, name |-> name, age |-> age, active |-> active, joined |-> joined]

rowBob == Row(1, Str(<<"B", "o", "b">>), Num(30), Bool(TRUE), Str(<<"2", "0", "2", "1">>))
rowAmy == Row(2, Str(<<"A", "m", "y">>), Num(5), Bool(FALSE), Str(<<"2", "0", "2", "0">>))
rowBob2 == Row(3, Str(<<"b", "o", "b">>), Str(<<"3", "0">>), Null, Null)

\* static datasets a caller may pass as the data prop; DataAlias holds the
\* same row object twice
DataThree == <<rowBob, rowAmy, rowBob2>>
DataAlias == <<rowAmy, rowAmy>>
DataEmpty == <<>>
Datasets == {DataThree, DataAlias, DataEmpty}

rowCy == Row(4, Str(<<"C", "y">>), Null, Bool(TRUE), Null)
rowAl == Row(5, Str(<<"A", "l">>), Num(7), Bool(FALSE), Str(<<"2", "0", "1", "9">>))

\* the rows held by the remote endpoint
ServerRows == <<rowBob, rowAmy, rowBob2, rowCy, rowAl>>

\* Object.values(row)
ObjectValues(row) == [i \in 1..Len(Columns) |-> row[Columns[i]]]

\* JSON.stringify of a value and of a row
JsonValue(v) == CASE v.t = "str" -> <<"\"">> \o v.s \o <<"\"">>
                  [] OTHER -> toString(v)

RECURSIVE JsonFields(_, _)
JsonFields(row, i) ==
    IF i > Len(Columns) THEN <<>>
    ELSE (IF i > 1 THEN <<",">> ELSE <<>>)
         \o <<"\"">> \o KeyChars(Columns[i]) \o <<"\"", ":">>
         \o JsonValue(row[Columns[i]])
         \o JsonFields(row, i + 1)

JsonStringify(row) == <<"{">> \o JsonFields(row, 1) \o <<"}">>

RECURSIVE StripNonAlnum(_)
StripNonAlnum(s) == IF s = <<>> THEN <<>>
                    ELSE (IF IsAlnum(Head(s)) THEN <<Head(s)>> ELSE <<>>)
                         \o StripNonAlnum(Tail(s))

HashLen == 50

\* useDataGrid rowIdMap: contentHash of a row
ContentHash(row) ==
    LET json == JsonStringify(row)
    IN StripNonAlnum(SubSeq(json, 1, IF Len(json) < HashLen THEN Len(json) ELSE HashLen))

\* the identifier `row-${index}-${contentHash}`
StableId(index, row) == [idx |-> index, hash |-> ContentHash(row)]

\* the identifier produced on a lookup miss
FallbackId == [idx |-> -1, hash |-> <<>>]

\* ------------------------------------------------------------------------
\* Filters, search terms, page sizes offered to the actions
\* ------------------------------------------------------------------------
Filter(column, operator, value, dataType) ==
    [column |-> column, operator |-> operator, value |-> value, dataType |-> dataType]

FilterChoices == {
    Filter("name", "contains", Str(<<"B">>), "string"),
    Filter("name", "eq", Str(<<"a", "m", "y">>), "string"),
    Filter("age", "gte", Num(30), "number") }

SearchTerms == {<<>>, <<"B">>}
PageSizes == {1, 2}
SortColumns == {"name", "age"}

\* the derived display string `${column} ${operator} "${value}"`, kept as
\* its three interpolated parts
Label(filter) == <<filter.column, filter.operator, toString(filter.value)>>

WithLabel(filter) ==
    [column |-> filter.column, operator |-> filter.operator, value |-> filter.value,
     dataType |-> filter.dataType, label |-> Label(filter)]

NoToken == 0
ServerPageSize == 2

\* ------------------------------------------------------------------------
\* State of one useDataGrid instance
\* ------------------------------------------------------------------------
VARIABLES
    isStatic,            \* the data prop is supplied (staticData is truthy)
    staticData,          \* the data prop
    endpoint,            \* the endpoint prop is supplied
    loading,
    error,               \* <<>> is null, <<m>> the message m
    serverData,
    lastServerResponse,  \* <<>> is null, <<r>> the response r
    searchTerm,
    activeFilters,
    sortConfig,
    selectedRows,
    currentPage,
    currentPageSize,
    continuationToken,   \* NoToken is undefined
    tokenHistory,
    inflight,            \* the loadServerData calls suspended at their await
    lastOp,              \* the handler that ran last and its argument
    fired,               \* the callbacks that handler invoked, in order
    issued,              \* the requests that handler handed to createApiRequest
    roundTrip,           \* history of a navigateNext / navigatePrevious round trip
    calc,                \* the last call of a utility function: name, arguments, result
    afterReset           \* history: fetches are outstanding and the last handler
                         \* that touched pagination was a resetting one

vars == <<isStatic, staticData, endpoint, loading, error, serverData,
          lastServerResponse, searchTerm, activeFilters, sortConfig, selectedRows,
          currentPage, currentPageSize, continuationToken, tokenHistory,
          inflight, lastOp, fired, issued, roundTrip, calc, afterReset>>

props == <<isStatic, staticData, endpoint>>

\* const sourceData = staticData || serverData
sourceData == IF isStatic THEN staticData ELSE serverData

\* the search predicate: some field's string form contains the term,
\* case-insensitively; value?.toString() skips null fields
MatchesSearch(row, term) ==
    \E i \in 1..Len(Columns) :
        LET value == ObjectValues(row)[i]
        IN value.t # "null"
           /\ includes(toLowerCase(toString(value)), toLowerCase(term))

\* processed.filter(row => Object.values(row).some(...))
RECURSIVE SearchRows(_, _)
SearchRows(rows, term) ==
    IF rows = <<>> THEN <<>>
    ELSE (IF MatchesSearch(Head(rows), term) THEN <<Head(rows)>> ELSE <<>>)
         \o SearchRows(Tail(rows), term)

MatchesFilter(row, filter) ==
    compareValues(row[filter.column], filter.value, filter.operator, filter.dataType)

\* processed.filter(row => compareValues(row[filter.column], ...))
RECURSIVE FilterRows(_, _)
FilterRows(rows, filter) ==
    IF rows = <<>> THEN <<>>
    ELSE (IF MatchesFilter(Head(rows), filter) THEN <<Head(rows)>> ELSE <<>>)
         \o FilterRows(Tail(rows), filter)

\* activeFilters.forEach(filter => processed = processed.filter(...))
RECURSIVE ApplyFilters(_, _)
ApplyFilters(rows, filters) ==
    IF filters = <<>> THEN rows
    ELSE ApplyFilters(FilterRows(rows, Head(filters)), Tail(filters))

\* the processedData memo for given inputs
Process(source, static, term, filters, sort) ==
    LET searched == IF term # <<>> /\ static
                    THEN SearchRows(source, term)
                    ELSE source
        filtered == IF static THEN ApplyFilters(searched, filters) ELSE searched
    IN IF sort.column # "" THEN sortData(filtered, sort.column, sort.direction)
       ELSE filtered

processedData == Process(sourceData, isStatic, searchTerm, activeFilters, sortConfig)

Min(a, b) == IF a < b THEN a ELSE b

\* Array.prototype.slice(start, end) with 0 <= start <= end
Slice(seq, start, end) == SubSeq(seq, start + 1, Min(end, Len(seq)))

\* a slice that starts one page too far
PaginatedMemoNextPage(processed, page, pageSize) ==
    IF ~isStatic THEN sourceData
    ELSE Slice(processed, page * pageSize, page * pageSize + pageSize)

\* the paginatedData memo
PaginatedMemo(processed, page, pageSize) ==
    IF ~isStatic THEN sourceData
    ELSE Slice(processed, (page - 1) * pageSize, (page - 1) * pageSize + pageSize)

\* the paginatedData the hook returns: staticData ? paginatedData : sourceData
paginatedData ==
    IF isStatic THEN PaginatedMemo(processedData, currentPage, currentPageSize)
    ELSE sourceData

\* Math.ceil(a / b) for a >= 0, b > 0
CeilDiv(a, b) == (a + b - 1) \div b

\* the paginationInfo memo
PaginationInfo(processedLen, page, pageSize, lastResp, history) ==
    IF ~isStatic /\ lastResp # <<>>
    THEN [currentPage |-> page,
          totalPages |-> 1,
          pageSize |-> pageSize,
          totalRecords |-> lastResp[1].Count,
          start |-> IF Len(sourceData) = 0 THEN 0 ELSE 1,
          end |-> Len(sourceData),
          hasNext |-> lastResp[1].HasMore,
          hasPrevious |-> Len(history) > 0,
          continuationToken |-> lastResp[1].ContinuationToken]
    ELSE [currentPage |-> page,
          totalPages |-> CeilDiv(processedLen, pageSize),
          pageSize |-> pageSize,
          totalRecords |-> processedLen,
          start |-> IF processedLen = 0 THEN 0 ELSE (page - 1) * pageSize + 1,
          end |-> Min(page * pageSize, processedLen),
          hasNext |-> page < CeilDiv(processedLen, pageSize),
          hasPrevious |-> page > 1,
          continuationToken |-> NoToken]

paginationInfo ==
    PaginationInfo(Len(processedData), currentPage, currentPageSize,
                   lastServerResponse, tokenHistory)

\* rowIdMap is keyed by the row object: a later index of the same object
\* overwrites the earlier entry; getRowId reads that map
getRowId(row) ==
    LET hits == {i \in 1..Len(sourceData) : sourceData[i].ref = row.ref}
    IN IF hits = {} THEN FallbackId
       ELSE LET last == CHOOSE i \in hits : \A j \in hits : j <= i
            IN StableId(last - 1, sourceData[last])

\* currentPageData.map(getRowId) as a Set
IdsOf(rows) == {getRowId(rows[i]) : i \in 1..Len(rows)}

RECURSIVE SelectedOf(_, _)
SelectedOf(rows, selection) ==
    IF rows = <<>> THEN <<>>
    ELSE (IF getRowId(Head(rows)) \in selection THEN <<Head(rows)>> ELSE <<>>)
         \o SelectedOf(Tail(rows), selection)

\* the selectedData memo
selectedData == SelectedOf(sourceData, selectedRows)

\* ------------------------------------------------------------------------
\* The remote endpoint and the transport
\* ------------------------------------------------------------------------
Last(seq) == seq[Len(seq)]
Front(seq) == SubSeq(seq, 1, Len(seq) - 1)

\* a reply body is parsed into fresh row objects
Fresh(rows) == [i \in 1..Len(rows) |-> [rows[i] EXCEPT !.ref = i]]

\* a deterministic endpoint: it applies the search term and the filters to
\* its rows and serves them pageSize at a time; the continuation token is
\* its resume offset, present while rows remain
ServerReply(request) ==
    LET matched == ApplyFilters(
                       IF request.search # <<>>
                       THEN SearchRows(ServerRows, request.search)
                       ELSE ServerRows,
                       request.filters)
        from == IF request.continuationToken = NoToken THEN 0
                ELSE request.continuationToken
        upto == from + request.pageSize
        items == Fresh(Slice(matched, from, upto))
    IN IF upto < Len(matched)
       THEN Obj([Items |-> Arr(items), HasMore |-> Bool(TRUE),
                 Count |-> Num(Len(matched)), ContinuationToken |-> Num(upto)])
       ELSE Obj([Items |-> Arr(items), HasMore |-> Bool(FALSE),
                 Count |-> Num(Len(matched))])

\* the item keys without the lower-case spelling
ItemKeysWithoutCamel == <<"Items", "data", "Data">>

ItemKeys == <<"Items", "items", "data", "Data">>
TokenKeys == <<"ContinuationToken", "continuationToken", "continuationtoken",
               "nextToken", "next_token", "NextToken">>
HasMoreKeys == <<"HasMore", "hasMore", "hasmore", "has_more", "hasNextPage",
                 "has_next_page">>
CountKeys == <<"Count", "count", "COUNT", "total", "Total", "length", "size">>

\* the own properties of a non-null value that the key lists can reach: the
\* fields of an object, the length of a string, nothing for a number or a
\* boolean
Properties(data) ==
    CASE data.t = "obj" -> data.f
      [] data.t = "str" -> [length |-> Num(Len(data.s))]
      [] OTHER -> <<>>

\* a key that is absent reads as undefined; obj[key] !== undefined holds for
\* a key that is present, null included
Undefined == [t |-> "undefined", s |-> <<>>, n |-> 0, b |-> FALSE]
HasValue(obj, keys) == \E i \in 1..Len(keys) : keys[i] \in DOMAIN obj

\* mapServerResponse getValue: the value under the first key that is defined
getValue(obj, keys) ==
    IF ~HasValue(obj, keys) THEN Undefined
    ELSE obj[keys[CHOOSE i \in 1..Len(keys) :
                      /\ keys[i] \in DOMAIN obj
                      /\ \A j \in 1..(i - 1) : keys[j] \notin DOMAIN obj]]

\* a continuation token as the hook holds it: the model's tokens are
\* numbers, every other value reads as no token
TokenOf(v) == IF v.t = "num" THEN v.n ELSE NoToken

\* the outcomes of mapServerResponse: a normalized response, or a TypeError
\* thrown by obj[key] on null or undefined
Normalized(items, token, hasMore, count) ==
    [threw |-> FALSE, Items |-> items, ContinuationToken |-> token,
     HasMore |-> hasMore, Count |-> count]
ThrewTypeError ==
    [threw |-> TRUE, Items |-> <<>>, ContinuationToken |-> NoToken,
     HasMore |-> FALSE, Count |-> 0]

\* utils/index.ts mapServerResponse
mapServerResponse(data) ==
    IF data.t \in {"null", "undefined"} THEN ThrewTypeError
    ELSE IF data.t = "arr" THEN Normalized(data.s, NoToken, FALSE, Len(data.s))
    ELSE LET obj == Properties(data)
             truthy(key) == key \in DOMAIN obj /\ (obj[key].t = "arr" \/ ToBoolean(obj[key]))
             items == getValue(obj, ItemKeys)
         IN IF truthy("Items") /\ truthy("LastEvaluatedKey")
            THEN Normalized(obj.Items.s, TokenOf(obj.LastEvaluatedKey), TRUE,
                            IF "Count" \in DOMAIN obj /\ NumberOrZero(obj.Count) # 0
                            THEN NumberOrZero(obj.Count) ELSE Len(obj.Items.s))
            ELSE Normalized(IF items.t = "arr" THEN items.s ELSE <<>>,
                            TokenOf(getValue(obj, TokenKeys)),
                            ToBoolean(getValue(obj, HasMoreKeys)),
                            NumberOrZero(getValue(obj, CountKeys)))

\* what createApiRequest throws: a non-2xx status, the timeout abort (a
\* rejected fetch carries a message in the same way), an Error without a
\* message, a thrown value that is no Error
Thrown(isError, message) == [isError |-> isError, message |-> message]
Failures == { Thrown(TRUE, "HTTP 500: Internal Server Error"),
              Thrown(TRUE, "The operation was aborted."),
              Thrown(TRUE, ""),
              Thrown(FALSE, "") }

\* a handleError without the fallback message
ErrorMessageAsThrown(err) == err.message

\* handleError: const errorMessage = err.message || 'An unknown error occurred'
ErrorMessage(err) == IF err.message # "" THEN err.message ELSE "An unknown error occurred"

\* the catch clause: err instanceof Error ? err : new Error('Failed to load data')
Caught(thrown) == IF thrown.isError THEN thrown ELSE Thrown(TRUE, "Failed to load data")

\* ------------------------------------------------------------------------
\* Callbacks and handler bookkeeping
\* ------------------------------------------------------------------------
Ev(cb, n, m, s) == [cb |-> cb, n |-> n, m |-> m, s |-> s]
Op(name, n, s) == [name |-> name, n |-> n, s |-> s]
B2N(b) == IF b THEN 1 ELSE 0

\* the values a loadServerData closure reads
Closure(token, history, page, term, filters) ==
    [continuationToken |-> token, tokenHistory |-> history, currentPage |-> page,
     searchTerm |-> term, activeFilters |-> filters]

CanFetch == Len(inflight) < MaxInflight
ServerMode == ~isStatic /\ endpoint

\* roundTrip follows one navigateNext whose fetch succeeds, followed at once
\* by one navigatePrevious whose fetch succeeds: phase 1 after the
\* navigateNext call (rows: the page displayed at that call), 2 after its
\* fetch, 3 after the navigatePrevious call, 4 after its fetch; phase 0
\* otherwise
NoTrip == [phase |-> 0, rows |-> <<>>]

\* no utility function has been called on its own
NoCalc == [fn |-> "", args |-> <<>>, done |-> TRUE, out |-> <<>>]

Track(op) ==
    CASE op.name = "navigateNext" /\ ServerMode /\ paginationInfo.hasNext /\ inflight = <<>> ->
             [phase |-> 1, rows |-> serverData]
      [] op.name = "fetchSucceed" /\ roundTrip.phase \in {1, 3} ->
             [roundTrip EXCEPT !.phase = @ + 1]
      [] op.name = "navigatePrevious" /\ roundTrip.phase = 2
                                      /\ paginationInfo.hasPrevious ->
             [roundTrip EXCEPT !.phase = 3]
      [] OTHER -> NoTrip

\* the handlers that reset pagination
ResetNames == {"setSearchTerm", "addFilter", "removeFilter", "clearFilters",
               "setPageSize", "refresh"}

\* afterReset after op: set by a resetting handler in server mode, cleared
\* by a navigation that passes its guard and by the completion of the last
\* outstanding fetch
ResetTrack(op) ==
    CASE op.name \in ResetNames -> ServerMode
      [] op.name = "navigateNext" /\ paginationInfo.hasNext -> FALSE
      [] op.name = "navigatePrevious" /\ paginationInfo.hasPrevious -> FALSE
      [] op.name \in {"fetchSucceed", "fetchFail"} -> afterReset /\ Len(inflight) > 1
      [] OTHER -> afterReset /\ inflight # <<>>

\* bookkeeping of a handler or completion that ran
Did(op) ==
    /\ lastOp' = op
    /\ roundTrip' = Track(op)
    /\ calc' = calc
    /\ afterReset' = ResetTrack(op)

\* a handler that does not reach loadServerData
NoLoad(pend, cbs) ==
    /\ continuationToken' = pend.continuationToken
    /\ tokenHistory' = pend.tokenHistory
    /\ currentPage' = pend.currentPage
    /\ fired' = cbs
    /\ issued' = <<>>
    /\ UNCHANGED <<loading, error, inflight>>

\* ------------------------------------------------------------------------
\* loadServerData up to its await
\* ------------------------------------------------------------------------
\* c: the values the closure captured at the render it was created in;
\* pend: the pagination state already queued by the calling handler;
\* cbs: the callbacks the calling handler has fired so far
StartFetch(resetPagination, navigationDirection, c, pend, cbs) ==
    LET goBack == /\ ~resetPagination
                  /\ navigationDirection = "previous"
                  /\ Len(c.tokenHistory) > 0
        requestToken == IF resetPagination THEN NoToken
                        ELSE IF goBack THEN Last(c.tokenHistory)
                        ELSE c.continuationToken
        request == [page |-> c.currentPage,
                    pageSize |-> ServerPageSize,
                    search |-> c.searchTerm,
                    filters |-> c.activeFilters,
                    continuationToken |-> requestToken]
    IN /\ loading' = TRUE
       /\ error' = <<>>
       /\ continuationToken' = IF resetPagination THEN NoToken
                               ELSE IF goBack THEN requestToken
                               ELSE pend.continuationToken
       /\ tokenHistory' = IF resetPagination THEN <<>>
                          ELSE IF goBack THEN Front(c.tokenHistory)
                          ELSE pend.tokenHistory
       /\ currentPage' = IF resetPagination THEN 1 ELSE pend.currentPage
       /\ inflight' = Append(inflight,
                             [request |-> request,
                              navigationDirection |-> navigationDirection,
                              continuationToken |-> c.continuationToken,
                              timer |-> TRUE,
                              overtaken |-> FALSE])
       /\ issued' = <<request>>
       /\ fired' = cbs \o <<Ev("onLoadingStateChange", 1, 0, "data-load")>>

\* loadServerData: if (!endpoint || staticData) return
LoadServerData(resetPagination, navigationDirection, c, pend, cbs) ==
    IF ~endpoint \/ isStatic
    THEN NoLoad(pend, cbs)
    ELSE StartFetch(resetPagination, navigationDirection, c, pend, cbs)

Pending(token, history, page) ==
    [continuationToken |-> token, tokenHistory |-> history, currentPage |-> page]

\* a reset that moves to page 1 and keeps the token state
ResetPendingKeepsToken == Pending(continuationToken, tokenHistory, 1)

\* a reset that keeps the page
ResetPendingKeepsPage == Pending(continuationToken, tokenHistory, currentPage)

\* the pagination state queued by "reset pagination when ... changes"
ResetPending ==
    IF isStatic THEN Pending(continuationToken, tokenHistory, 1)
    ELSE Pending(NoToken, <<>>, 1)

\* an effect whose closure still holds the search term and the filters of
\* the render before the change
FetchEffectStale(changed, term, filters, pend, cbs) ==
    IF changed /\ ~isStatic
    THEN LoadServerData(TRUE, "none",
                        Closure(pend.continuationToken, pend.tokenHistory,
                                pend.currentPage, searchTerm, activeFilters),
                        pend, cbs)
    ELSE NoLoad(pend, cbs)

\* useEffect(() => { if (!staticData) loadServerData(true) },
\*           [staticData, searchTerm, activeFilters])
\* run after the render that follows a handler which changed a dependency
FetchEffect(changed, term, filters, pend, cbs) ==
    IF changed /\ ~isStatic
    THEN LoadServerData(TRUE, "none",
                        Closure(pend.continuationToken, pend.tokenHistory,
                                pend.currentPage, term, filters),
                        pend, cbs)
    ELSE NoLoad(pend, cbs)

\* ------------------------------------------------------------------------
\* Actions of the hook
\* ------------------------------------------------------------------------
\* updateSearchTerm
SetSearchTerm(term) ==
    /\ (ServerMode /\ term # searchTerm) => CanFetch
    /\ searchTerm' = term
    /\ Did(Op("setSearchTerm", Len(term), ""))
    /\ FetchEffect(term # searchTerm, term, activeFilters, ResetPending,
                   <<Ev("onSearchChange", Len(term), 0, "")>>)
    /\ UNCHANGED <<props, serverData, lastServerResponse, activeFilters, sortConfig,
                   selectedRows, currentPageSize>>

\* a toggle that does not look at the column
NextDirectionAnyColumn(sort, column) ==
    IF sort.column # "" /\ sort.direction = "asc" THEN "desc" ELSE "asc"

NextDirection(sort, column) ==
    IF sort.column = column /\ sort.direction = "asc" THEN "desc" ELSE "asc"

\* a setSort that reloads from the server
SetSortRefetches(column) ==
    /\ sortConfig' = [column |-> column, direction |-> NextDirection(sortConfig, column)]
    /\ Did(Op("setSort", 0, column))
    /\ LET cbs == <<Ev("onSortChange", B2N(NextDirection(sortConfig, column) = "desc"),
                       0, column)>>
       IN IF isStatic THEN NoLoad(Pending(continuationToken, tokenHistory, 1), cbs)
          ELSE LoadServerData(TRUE, "none",
                              Closure(continuationToken, tokenHistory, currentPage,
                                      searchTerm, activeFilters),
                              ResetPending, cbs)
    /\ UNCHANGED <<props, serverData, lastServerResponse, searchTerm, activeFilters,
                   selectedRows, currentPageSize>>

\* setSort
SetSort(column) ==
    /\ sortConfig' = [column |-> column, direction |-> NextDirection(sortConfig, column)]
    /\ Did(Op("setSort", 0, column))
    /\ NoLoad(Pending(continuationToken, tokenHistory,
                      IF isStatic THEN 1 ELSE currentPage),
              <<Ev("onSortChange", B2N(NextDirection(sortConfig, column) = "desc"),
                   0, column)>>)
    /\ UNCHANGED <<props, serverData, lastServerResponse, searchTerm, activeFilters,
                   selectedRows, currentPageSize>>

\* a setPage that jumps in server mode too
SetPageBodyAnyMode(page) ==
    NoLoad(Pending(continuationToken, tokenHistory, page),
           <<Ev("onPageChange", page, page, "")>>)

\* a setPage that does not notify onPageChange
SetPageBodySilent(page) ==
    IF isStatic
    THEN NoLoad(Pending(continuationToken, tokenHistory, page), <<>>)
    ELSE NoLoad(Pending(continuationToken, tokenHistory, currentPage), <<>>)

\* setPage, exported as setCurrentPage
SetPageBody(page) ==
    IF isStatic
    THEN NoLoad(Pending(continuationToken, tokenHistory, page),
                <<Ev("onPageChange", page, page, "")>>)
    ELSE NoLoad(Pending(continuationToken, tokenHistory, currentPage), <<>>)

SetPage(page) ==
    /\ Did(Op("setCurrentPage", page, ""))
    /\ SetPageBody(page)
    /\ UNCHANGED <<props, serverData, lastServerResponse, searchTerm, activeFilters,
                   sortConfig, selectedRows, currentPageSize>>

CurrentClosure ==
    Closure(continuationToken, tokenHistory, currentPage, searchTerm, activeFilters)
CurrentPending == Pending(continuationToken, tokenHistory, currentPage)

NavigateNext ==
    /\ (ServerMode /\ paginationInfo.hasNext) => (CanFetch /\ Len(tokenHistory) < MaxHistory)
    /\ Did(Op("navigateNext", 0, ""))
    /\ IF ~paginationInfo.hasNext THEN NoLoad(CurrentPending, <<>>)
       ELSE IF ~isStatic
            THEN LoadServerData(FALSE, "next", CurrentClosure, CurrentPending, <<>>)
            ELSE SetPageBody(currentPage + 1)
    /\ UNCHANGED <<props, serverData, lastServerResponse, searchTerm, activeFilters,
                   sortConfig, selectedRows, currentPageSize>>

NavigatePrevious ==
    /\ (ServerMode /\ paginationInfo.hasPrevious) => CanFetch
    /\ Did(Op("navigatePrevious", 0, ""))
    /\ IF ~paginationInfo.hasPrevious THEN NoLoad(CurrentPending, <<>>)
       ELSE IF ~isStatic
            THEN LoadServerData(FALSE, "previous", CurrentClosure, CurrentPending, <<>>)
            ELSE SetPageBody(currentPage - 1)
    /\ UNCHANGED <<props, serverData, lastServerResponse, searchTerm, activeFilters,
                   sortConfig, selectedRows, currentPageSize>>

SetPageSize(newPageSize) ==
    /\ ServerMode => CanFetch
    /\ currentPageSize' = newPageSize
    /\ Did(Op("setPageSize", newPageSize, ""))
    /\ LET cbs == <<Ev("onPageSizeChange", newPageSize,
                       IF isStatic THEN CeilDiv(Len(processedData), newPageSize) ELSE 1,
                       "")>>
       IN IF isStatic THEN NoLoad(ResetPending, cbs)
          ELSE LoadServerData(TRUE, "none", CurrentClosure, ResetPending, cbs)
    /\ UNCHANGED <<props, serverData, lastServerResponse, searchTerm, activeFilters,
                   sortConfig, selectedRows>>

RECURSIVE WithoutColumn(_, _)
WithoutColumn(filters, column) ==
    IF filters = <<>> THEN <<>>
    ELSE (IF Head(filters).column # column THEN <<Head(filters)>> ELSE <<>>)
         \o WithoutColumn(Tail(filters), column)

\* an addFilter that appends without removing the column's filter
AddedFiltersAppend(filters, filter) == Append(filters, WithLabel(filter))

\* addFilter's newFilters
AddedFilters(filters, filter) ==
    Append(WithoutColumn(filters, filter.column), WithLabel(filter))

\* removeFilter's newFilters; index is 0-based
RemovedFilters(filters, index) ==
    SubSeq(filters, 1, Min(index, Len(filters))) \o SubSeq(filters, index + 2, Len(filters))

\* the common tail of addFilter, removeFilter and clearFilters
SetFilters(newFilters) ==
    /\ ServerMode => CanFetch
    /\ activeFilters' = newFilters
    /\ FetchEffect(TRUE, searchTerm, newFilters, ResetPending,
                   <<Ev("onFilterChange", Len(newFilters), 0, "")>>)
    /\ UNCHANGED <<props, serverData, lastServerResponse, searchTerm, sortConfig,
                   selectedRows, currentPageSize>>

AddFilter(filter) ==
    /\ Len(AddedFilters(activeFilters, filter)) <= MaxFilters
    /\ Did(Op("addFilter", 0, filter.column))
    /\ SetFilters(AddedFilters(activeFilters, filter))

RemoveFilter(index) ==
    /\ Did(Op("removeFilter", index, ""))
    /\ SetFilters(RemovedFilters(activeFilters, index))

ClearFilters ==
    /\ Did(Op("clearFilters", 0, ""))
    /\ SetFilters(<<>>)

SelectRow(rowId, selected) ==
    /\ selectedRows' = IF selected THEN selectedRows \cup {rowId}
                       ELSE selectedRows \ {rowId}
    /\ Did(Op("selectRow", B2N(selected), ""))
    /\ NoLoad(CurrentPending, <<>>)
    /\ UNCHANGED <<props, serverData, lastServerResponse, searchTerm, activeFilters,
                   sortConfig, currentPageSize>>

\* selectAll's new selection
SelectAllIds(selected) ==
    IF selected
    THEN IdsOf(IF isStatic
               THEN PaginatedMemo(processedData, currentPage, currentPageSize)
               ELSE sourceData)
    ELSE {}

SelectAll(selected) ==
    /\ selectedRows' = SelectAllIds(selected)
    /\ Did(Op("selectAll", B2N(selected), ""))
    /\ NoLoad(CurrentPending, <<>>)
    /\ UNCHANGED <<props, serverData, lastServerResponse, searchTerm, activeFilters,
                   sortConfig, currentPageSize>>

\* a refresh that refetches whenever an endpoint is configured
RefreshRefetches ==
    /\ endpoint => CanFetch
    /\ Did(Op("refresh", 0, ""))
    /\ IF ~endpoint
       THEN NoLoad(Pending(continuationToken, tokenHistory, 1), <<>>)
       ELSE StartFetch(TRUE, "none", CurrentClosure, CurrentPending, <<>>)
    /\ UNCHANGED <<searchTerm, activeFilters, sortConfig>>
    /\ UNCHANGED <<props, serverData, lastServerResponse, selectedRows, currentPageSize>>

\* a client refresh that keeps the sort
RefreshKeepsSort ==
    /\ ServerMode => CanFetch
    /\ Did(Op("refresh", 0, ""))
    /\ IF isStatic
       THEN /\ searchTerm' = <<>>
            /\ activeFilters' = <<>>
            /\ sortConfig' = sortConfig
            /\ NoLoad(Pending(continuationToken, tokenHistory, 1), <<>>)
       ELSE /\ LoadServerData(TRUE, "none", CurrentClosure, CurrentPending, <<>>)
            /\ UNCHANGED <<searchTerm, activeFilters, sortConfig>>
    /\ UNCHANGED <<props, serverData, lastServerResponse, selectedRows, currentPageSize>>

Refresh ==
    /\ ServerMode => CanFetch
    /\ Did(Op("refresh", 0, ""))
    /\ IF isStatic
       THEN /\ searchTerm' = <<>>
            /\ activeFilters' = <<>>
            /\ sortConfig' = [column |-> "", direction |-> "asc"]
            /\ NoLoad(Pending(continuationToken, tokenHistory, 1), <<>>)
       ELSE /\ LoadServerData(TRUE, "none", CurrentClosure, CurrentPending, <<>>)
            /\ UNCHANGED <<searchTerm, activeFilters, sortConfig>>
    /\ UNCHANGED <<props, serverData, lastServerResponse, selectedRows, currentPageSize>>

\* ------------------------------------------------------------------------
\* loadServerData after its await
\* ------------------------------------------------------------------------
RemoveAt(seq, i) == SubSeq(seq, 1, i - 1) \o SubSeq(seq, i + 1, Len(seq))

\* the calls that remain when call i ends; overtaken marks the calls issued
\* before it that are still suspended
Remaining(calls, i) ==
    RemoveAt([j \in 1..Len(calls) |->
                 IF j < i THEN [calls[j] EXCEPT !.overtaken = TRUE] ELSE calls[j]], i)

\* setTokenHistory((prev) => [...prev, continuationToken]) on a 'next' call
\* whose closure held a token
HistoryAfter(history, call) ==
    IF call.navigationDirection = "next" /\ call.continuationToken # NoToken
    THEN Append(history, call.continuationToken)
    ELSE history

\* if (response.ContinuationToken) setContinuationToken(response.ContinuationToken)
TokenAfter(token, response) ==
    IF response.ContinuationToken # NoToken THEN response.ContinuationToken ELSE token

\* a completion that drops the response of a call that a later call overtook
RowsAfterFenced(call, response) ==
    IF call.overtaken THEN serverData ELSE response.Items

\* setServerData(response.Items)
RowsAfter(call, response) == response.Items

\* the await resolves: the try block runs to its end, then the finally block
FetchSucceed(i) ==
    /\ i \in 1..Len(inflight)
    /\ LET call == inflight[i]
           response == mapServerResponse(ServerReply(call.request))
       IN /\ ~response.threw
          /\ serverData' = RowsAfter(call, response)
          /\ lastServerResponse' = <<response>>
          /\ tokenHistory' = HistoryAfter(tokenHistory, call)
          /\ continuationToken' = TokenAfter(continuationToken, response)
          /\ fired' = <<Ev("onDataLoad", response.Count, 0, ""),
                        Ev("onLoadingStateChange", 0, 0, "data-load")>>
    /\ loading' = FALSE
    /\ inflight' = Remaining(inflight, i)
    /\ issued' = <<>>
    /\ Did(Op("fetchSucceed", i, IF inflight[i].overtaken THEN "overtaken" ELSE ""))
    /\ UNCHANGED <<props, error, searchTerm, activeFilters, sortConfig, selectedRows,
                   currentPage, currentPageSize>>

\* the await rejects: the catch block runs, then the finally block
FetchFail(i, thrown) ==
    /\ i \in 1..Len(inflight)
    /\ error' = <<ErrorMessage(Caught(thrown))>>
    /\ fired' = <<Ev("onDataError", 0, 0, "data-load"),
                  Ev("onLoadingStateChange", 0, 0, "data-load")>>
    /\ loading' = FALSE
    /\ inflight' = Remaining(inflight, i)
    /\ issued' = <<>>
    /\ Did(Op("fetchFail", i, ""))
    /\ UNCHANGED <<props, serverData, lastServerResponse, searchTerm, activeFilters,
                   sortConfig, selectedRows, currentPage, currentPageSize,
                   continuationToken, tokenHistory>>

\* createApiRequest: fetch resolves with an ok status when the response
\* headers arrive and clearTimeout disarms the abort timer; the body is
\* still to be read by response.json()
HeadersArrive(i) ==
    /\ i \in 1..Len(inflight)
    /\ inflight[i].timer
    /\ inflight' = [inflight EXCEPT ![i].timer = FALSE]
    /\ issued' = <<>>
    /\ fired' = <<>>
    /\ Did(Op("headersArrive", i, ""))
    /\ UNCHANGED <<props, loading, error, serverData, lastServerResponse, searchTerm,
                   activeFilters, sortConfig, selectedRows, currentPage,
                   currentPageSize, continuationToken, tokenHistory>>

\* ------------------------------------------------------------------------
\* Specification
\* ------------------------------------------------------------------------
\* the state after the first render and its mount effect
Init ==
    /\ isStatic \in BOOLEAN
    /\ staticData \in (IF isStatic THEN Datasets ELSE {<<>>})
    /\ endpoint \in BOOLEAN
    /\ currentPageSize \in PageSizes
    /\ serverData = <<>>
    /\ lastServerResponse = <<>>
    /\ searchTerm = <<>>
    /\ activeFilters = <<>>
    /\ sortConfig = [column |-> "", direction |-> "asc"]
    /\ selectedRows = {}
    /\ currentPage = 1
    /\ continuationToken = NoToken
    /\ tokenHistory = <<>>
    /\ error = <<>>
    /\ lastOp = Op("mount", 0, "")
    /\ roundTrip = NoTrip
    /\ calc = NoCalc
    /\ afterReset = (~isStatic /\ endpoint)
    /\ loading = (~isStatic /\ endpoint)
    /\ issued = IF ~isStatic /\ endpoint
                THEN <<[page |-> 1, pageSize |-> ServerPageSize, search |-> <<>>,
                        filters |-> <<>>, continuationToken |-> NoToken]>>
                ELSE <<>>
    /\ inflight = [i \in 1..Len(issued) |->
                      [request |-> issued[i], navigationDirection |-> "none",
                       continuationToken |-> NoToken, timer |-> TRUE,
                       overtaken |-> FALSE]]
    /\ fired = IF ~isStatic /\ endpoint
               THEN <<Ev("onLoadingStateChange", 1, 0, "data-load")>>
               ELSE <<>>

\* every handler and both completions of a fetch, fetches overlapping up to
\* MaxInflight
Next ==
    \/ \E term \in SearchTerms : SetSearchTerm(term)
    \/ \E column \in SortColumns : SetSort(column)
    \/ \E page \in 1..MaxPageJump : SetPage(page)
    \/ NavigateNext
    \/ NavigatePrevious
    \/ \E size \in PageSizes : SetPageSize(size)
    \/ \E filter \in FilterChoices : AddFilter(filter)
    \/ \E index \in 0..Len(activeFilters) : RemoveFilter(index)
    \/ ClearFilters
    \/ Refresh
    \/ \E rowId \in IdsOf(paginatedData), selected \in BOOLEAN : SelectRow(rowId, selected)
    \/ \E selected \in BOOLEAN : SelectAll(selected)
    \/ \E i \in 1..Len(inflight) : FetchSucceed(i)
    \/ \E i \in 1..Len(inflight), thrown \in Failures : FetchFail(i, thrown)

Spec == Init /\ [][Next]_vars

\* no fetch is in flight
Idle == inflight = <<>>

\* search, filter, sort, pagination and data loading in both modes, the
\* handlers that can start a fetch being invoked between fetches
NextGrid ==
    \/ \E term \in SearchTerms : Idle /\ SetSearchTerm(term)
    \/ \E column \in SortColumns : SetSort(column)
    \/ \E page \in 1..MaxPageJump : SetPage(page)
    \/ Idle /\ NavigateNext
    \/ Idle /\ NavigatePrevious
    \/ \E size \in PageSizes : Idle /\ SetPageSize(size)
    \/ \E filter \in FilterChoices : Idle /\ AddFilter(filter)
    \/ \E index \in 0..Len(activeFilters) : Idle /\ RemoveFilter(index)
    \/ Idle /\ ClearFilters
    \/ Idle /\ Refresh
    \/ \E i \in 1..Len(inflight) : FetchSucceed(i)
    \/ \E i \in 1..Len(inflight), thrown \in Failures : FetchFail(i, thrown)

SpecGrid == Init /\ [][NextGrid]_vars

\* row selection in both modes, while the page, its size and its order change
NextSelect ==
    \/ \E rowId \in IdsOf(paginatedData), selected \in BOOLEAN : SelectRow(rowId, selected)
    \/ \E selected \in BOOLEAN : SelectAll(selected)
    \/ \E column \in SortColumns : SetSort(column)
    \/ Idle /\ NavigateNext
    \/ Idle /\ NavigatePrevious
    \/ \E size \in PageSizes : Idle /\ SetPageSize(size)
    \/ \E i \in 1..Len(inflight) : FetchSucceed(i)

SpecSelect == Init /\ [][NextSelect]_vars

\* a request while its abort timer is armed: the headers arrive, or fetch
\* rejects, at the latest when the timer aborts it
TimedStep ==
    \E i \in 1..Len(inflight) :
        /\ inflight[i].timer
        /\ \/ HeadersArrive(i)
           \/ \E thrown \in Failures : FetchFail(i, thrown)

\* data loading with the two awaits of createApiRequest apart: fetch, then
\* response.json()
NextLoad ==
    \/ Idle /\ NavigateNext
    \/ Idle /\ NavigatePrevious
    \/ Idle /\ Refresh
    \/ \E size \in PageSizes : Idle /\ SetPageSize(size)
    \/ \E i \in 1..Len(inflight) : HeadersArrive(i)
    \/ \E i \in 1..Len(inflight) : ~inflight[i].timer /\ FetchSucceed(i)
    \/ \E i \in 1..Len(inflight), thrown \in Failures : FetchFail(i, thrown)

\* the abort timer makes a step of a request certain only while it is armed;
\* nothing bounds the read of the body
SpecLoad == Init /\ [][NextLoad]_vars /\ WF_vars(TimedStep)

\* ------------------------------------------------------------------------
\* The utility functions called on their own (utils/index.ts)
\* ------------------------------------------------------------------------
\* column values and filter values of every type
bobStr == Str(<<"B", "o", "b">>)
trueStr == Str(<<"t", "r", "u", "e">>)
falseStr == Str(<<"f", "a", "l", "s", "e">>)
DataValues == {Null, bobStr, Str(<<"3", "0">>), Str(<<"2", "0", "2", "1">>),
               Num(0), Num(30), Bool(TRUE), Bool(FALSE)}
FilterValues == {Str(<<"b">>), Str(<<"3", "0">>), Str(<<"2", "0", "2", "1">>),
                 trueStr, falseStr, Num(30), Bool(TRUE), Bool(FALSE)}

\* the operators of the filter form and one it does not offer
Operators == {"eq", "contains", "startsWith", "endsWith", "gt", "gte", "lt", "lte", "ne"}
\* the data types of a column and one that is not declared
DataTypes == {"string", "number", "date", "datetime", "boolean", "custom"}

\* the data sets handed to the filter step and to sortData
SortSets == {DataThree, DataAlias, <<rowBob, rowAmy, rowAl>>, <<rowAl, rowBob, rowAmy>>,
             <<rowBob2, rowBob>>, <<rowCy, rowBob, rowAmy>>, ServerRows}

\* a call that waits (out is empty) and a call that has returned
CallOf(fn, args) == [fn |-> fn, args |-> args, done |-> FALSE, out |-> <<>>]
Returned(out) == [calc EXCEPT !.done = TRUE, !.out = out]
Waiting(fn) == calc.fn = fn /\ ~calc.done

grid == <<isStatic, staticData, endpoint, loading, error, serverData,
          lastServerResponse, searchTerm, activeFilters, sortConfig, selectedRows,
          currentPage, currentPageSize, continuationToken, tokenHistory,
          inflight, lastOp, fired, issued, roundTrip, afterReset>>

\* compareValues(dataValue, filterValue, operator, dataType)
Compare ==
    /\ Waiting("compareValues")
    /\ calc' = Returned(compareValues(calc.args.dataValue, calc.args.filterValue,
                                      calc.args.operator, calc.args.dataType))
    /\ UNCHANGED grid

\* the filter step of processedData on the rows of a data prop
FilterStep ==
    /\ Waiting("filter")
    /\ calc' = Returned(Process(calc.args.rows, TRUE, <<>>, <<calc.args.filter>>,
                                [column |-> "", direction |-> "asc"]))
    /\ UNCHANGED grid

\* sortData(data, sortColumn, 'asc') and sortData(data, sortColumn, 'desc')
SortBoth ==
    /\ Waiting("sortData")
    /\ calc' = Returned([asc |-> sortData(calc.args.data, calc.args.sortColumn, "asc"),
                         desc |-> sortData(calc.args.data, calc.args.sortColumn, "desc")])
    /\ UNCHANGED grid

\* parsed reply bodies of every kind: null, undefined, primitives, arrays,
\* objects of unrecognized shape, objects whose item field is no array, and
\* a DynamoDB reply
Replies == {Null, Undefined, Num(5), Bool(TRUE), bobStr, Str(<<>>),
            Arr(<<>>), Arr(<<rowBob, rowAmy>>),
            Obj(<<>>), Obj([rows |-> Arr(<<rowBob>>)]),
            Obj([Items |-> Null]), Obj([items |-> bobStr, total |-> Str(<<"7">>)]),
            Obj([data |-> Arr(<<rowAmy>>), hasNextPage |-> Num(1), nextToken |-> Num(2)]),
            Obj([Items |-> Arr(<<rowBob>>), LastEvaluatedKey |-> Num(2), Count |-> Num(0)]),
            Obj([Items |-> Arr(<<rowBob>>), items |-> Arr(<<rowAmy>>), Count |-> Num(1)])}

\* mapServerResponse(data)
Normalize ==
    /\ Waiting("mapServerResponse")
    /\ calc' = Returned(mapServerResponse(calc.args.data))
    /\ UNCHANGED grid

\* the same reply in the two casing conventions; a reply without token has
\* no token field
PascalReply(items, hasMore, count, token) ==
    IF token = NoToken
    THEN Obj([Items |-> Arr(items), HasMore |-> Bool(hasMore), Count |-> Num(count)])
    ELSE Obj([Items |-> Arr(items), HasMore |-> Bool(hasMore), Count |-> Num(count),
              ContinuationToken |-> Num(token)])
CamelReply(items, hasMore, count, token) ==
    IF token = NoToken
    THEN Obj([items |-> Arr(items), hasMore |-> Bool(hasMore), count |-> Num(count)])
    ELSE Obj([items |-> Arr(items), hasMore |-> Bool(hasMore), count |-> Num(count),
              continuationToken |-> Num(token)])

\* mapServerResponse on both spellings of one reply
NormalizeBoth ==
    /\ Waiting("bothCasings")
    /\ LET r == calc.args
       IN calc' = Returned(
              [pascal |-> mapServerResponse(PascalReply(r.items, r.hasMore, r.count, r.token)),
               camel |-> mapServerResponse(CamelReply(r.items, r.hasMore, r.count, r.token))])
    /\ UNCHANGED grid

\* the calls the utilities receive
UtilCalls ==
    \/ \E dataValue \in DataValues, filterValue \in FilterValues,
          operator \in Operators, dataType \in DataTypes :
          calc = CallOf("compareValues",
                          [dataValue |-> dataValue, filterValue |-> filterValue,
                           operator |-> operator, dataType |-> dataType])
    \/ \E rows \in SortSets, column \in {"name", "age", "active", "joined"},
          filterValue \in FilterValues, operator \in Operators, dataType \in DataTypes :
          calc = CallOf("filter",
                          [rows |-> rows,
                           filter |-> [column |-> column, operator |-> operator,
                                       value |-> filterValue, dataType |-> dataType]])
    \/ \E data \in SortSets, sortColumn \in {"name", "age", "active", "joined"} :
          calc = CallOf("sortData", [data |-> data, sortColumn |-> sortColumn])
    \/ \E data \in Replies : calc = CallOf("mapServerResponse", [data |-> data])
    \/ \E items \in {<<>>, <<rowBob>>, <<rowBob, rowAmy>>}, hasMore \in BOOLEAN,
          count \in {0, 2, 5}, token \in {NoToken, 2} :
          calc = CallOf("bothCasings",
                          [items |-> items, hasMore |-> hasMore, count |-> count,
                           token |-> token])

\* a grid that is mounted and left alone while a utility is called
InitUtils ==
    /\ isStatic = TRUE
    /\ staticData = DataThree
    /\ endpoint = FALSE
    /\ currentPageSize = 2
    /\ serverData = <<>>
    /\ lastServerResponse = <<>>
    /\ searchTerm = <<>>
    /\ activeFilters = <<>>
    /\ sortConfig = [column |-> "", direction |-> "asc"]
    /\ selectedRows = {}
    /\ currentPage = 1
    /\ continuationToken = NoToken
    /\ tokenHistory = <<>>
    /\ error = <<>>
    /\ lastOp = Op("mount", 0, "")
    /\ roundTrip = NoTrip
    /\ loading = FALSE
    /\ issued = <<>>
    /\ inflight = <<>>
    /\ fired = <<>>
    /\ afterReset = FALSE
    /\ UtilCalls

NextUtils == Compare \/ FilterStep \/ SortBoth \/ Normalize \/ NormalizeBoth

SpecUtils == InitUtils /\ [][NextUtils]_vars

\* ------------------------------------------------------------------------
\* The filter form (FilterControls) on a grid with static data
\* ------------------------------------------------------------------------
\* the dataType of the column definitions handed to the grid
ColumnDataType(key) == CASE key = "name" -> "string"
                         [] key = "age" -> "number"
                         [] key = "active" -> "boolean"
                         [] OTHER -> "date"

\* FilterControls getOperatorOptions
OperatorOptions(dataType) ==
    CASE dataType \in {"number", "date", "datetime"} -> {"eq", "gt", "gte", "lt", "lte"}
      [] dataType = "string" -> {"eq", "contains", "startsWith", "endsWith"}
      [] OTHER -> {"eq"}

\* what the value control of a column can hold: the options of the select
\* for a boolean column, typed text otherwise
FormValues(dataType) ==
    IF dataType = "boolean"
    THEN {<<>>, <<"t", "r", "u", "e">>, <<"f", "a", "l", "s", "e">>}
    ELSE {<<>>, <<" ">>, <<" ", "b">>, <<"3", "0">>}

\* String.prototype.trim
RECURSIVE TrimStart(_)
TrimStart(text) == IF text # <<>> /\ Head(text) = " " THEN TrimStart(Tail(text)) ELSE text
RECURSIVE TrimEnd(_)
TrimEnd(text) == IF text # <<>> /\ text[Len(text)] = " "
                 THEN TrimEnd(SubSeq(text, 1, Len(text) - 1)) ELSE text
Trim(text) == TrimEnd(TrimStart(text))

\* FilterControls handleApplyFilter with the form holding filterColumn,
\* filterOperator and filterValue; onAddFilter is the hook's addFilter
HandleApplyFilter(filterColumn, filterOperator, filterValue) ==
    /\ filterColumn # ""
    /\ Trim(filterValue) # <<>>
    /\ AddFilter(Filter(filterColumn, filterOperator, Str(Trim(filterValue)),
                        ColumnDataType(filterColumn)))

InitForm == Init /\ isStatic

NextForm ==
    \/ \E filterColumn \in {"name", "age", "active", "joined"} :
          \E filterOperator \in OperatorOptions(ColumnDataType(filterColumn)),
             filterValue \in FormValues(ColumnDataType(filterColumn)) :
             HandleApplyFilter(filterColumn, filterOperator, filterValue)
    \/ \E index \in 0..(MaxFilters - 1) : index < Len(activeFilters) /\ RemoveFilter(index)
    \/ ClearFilters

SpecForm == InitForm /\ [][NextForm]_vars

\* ------------------------------------------------------------------------
\* The bulk-delete button of the DataGrid component
\* ------------------------------------------------------------------------
\* how a click on the button went: without confirmation dialog, or with the
\* dialog accepted or declined
NoDialog == 0
Accepted == 1
Declined == 2

\* DataGrid handleDelete; deleteConfirmation is the prop, confirmed the
\* answer of window.confirm. The dialog announces selectedRows.size and
\* onBulkDelete receives selectedData
HandleDelete(deleteConfirmation, confirmed) ==
    LET count == Cardinality(selectedRows)
        dialog == IF deleteConfirmation
                  THEN <<Ev("confirm", count, B2N(confirmed), "")>>
                  ELSE <<>>
        executeDelete == <<Ev("onBulkDelete", Len(selectedData), 0, "")>>
    IN /\ Did(Op("handleDelete",
                 IF ~deleteConfirmation THEN NoDialog
                 ELSE IF confirmed THEN Accepted ELSE Declined, ""))
       /\ NoLoad(CurrentPending,
                 IF count = 0 THEN <<>>
                 ELSE IF deleteConfirmation /\ ~confirmed THEN dialog
                 ELSE dialog \o executeDelete)
       /\ UNCHANGED <<props, serverData, lastServerResponse, searchTerm, activeFilters,
                      sortConfig, selectedRows, currentPageSize>>

NextDelete ==
    \/ \E rowId \in IdsOf(paginatedData), selected \in BOOLEAN : SelectRow(rowId, selected)
    \/ \E selected \in BOOLEAN : SelectAll(selected)
    \/ Idle /\ NavigateNext
    \/ Idle /\ NavigatePrevious
    \/ Idle /\ Refresh
    \/ \E i \in 1..Len(inflight) : FetchSucceed(i)
    \/ \E deleteConfirmation \in BOOLEAN, confirmed \in BOOLEAN :
          (deleteConfirmation \/ confirmed) /\ HandleDelete(deleteConfirmation, confirmed)

SpecDelete == Init /\ [][NextDelete]_vars

\* ------------------------------------------------------------------------
\* Overlapping fetches in server mode
\* ------------------------------------------------------------------------
InitOverlap == Init /\ ~isStatic /\ endpoint

\* handlers invoked while fetches are outstanding, completions in any order
NextOverlap ==
    \/ \E term \in SearchTerms : SetSearchTerm(term)
    \/ NavigateNext
    \/ NavigatePrevious
    \/ Refresh
    \/ \E i \in 1..Len(inflight) : FetchSucceed(i)
    \/ \E i \in 1..Len(inflight), thrown \in Failures : FetchFail(i, thrown)

SpecOverlap == InitOverlap /\ [][NextOverlap]_vars

\* ------------------------------------------------------------------------
\* A grid with static data, without direct page jumps
\* ------------------------------------------------------------------------
InitClient == Init /\ isStatic

NextClient ==
    \/ \E term \in SearchTerms : SetSearchTerm(term)
    \/ \E column \in SortColumns : SetSort(column)
    \/ NavigateNext
    \/ NavigatePrevious
    \/ \E size \in PageSizes : SetPageSize(size)
    \/ \E filter \in FilterChoices : AddFilter(filter)
    \/ \E index \in 0..Len(activeFilters) : RemoveFilter(index)
    \/ ClearFilters
    \/ Refresh

SpecClient == InitClient /\ [][NextClient]_vars

\* ------------------------------------------------------------------------
\* Properties
\* ------------------------------------------------------------------------
\* text contains term, letter case ignored
ContainsIgnoringCase(text, term) ==
    \E k \in 0..(Len(text) - Len(term)) :
        \A j \in 1..Len(term) : LowerChar(text[k + j]) = LowerChar(term[j])

\* row satisfies the search term and every active filter
SatisfiesQuery(row) ==
    /\ searchTerm # <<>> =>
           \E i \in 1..Len(Columns) :
               /\ row[Columns[i]].t # "null"
               /\ ContainsIgnoringCase(toString(row[Columns[i]]), searchTerm)
    /\ \A k \in 1..Len(activeFilters) :
           compareValues(row[activeFilters[k].column], activeFilters[k].value,
                         activeFilters[k].operator, activeFilters[k].dataType)

\* the rows of data at the positions of idx, in their order in data
Subsequence(data, idx) ==
    [k \in 1..Cardinality(idx) |->
        data[CHOOSE i \in idx : Cardinality({j \in idx : j <= i}) = k]]

\* the dataset after search, filters and sort
QueryResult ==
    sortData(Subsequence(staticData,
                         {i \in 1..Len(staticData) : SatisfiesQuery(staticData[i])}),
             sortConfig.column, sortConfig.direction)

\* the number of pages of n rows, pageSize rows to a page
PagesOf(n, pageSize) == CHOOSE p \in 0..n : p * pageSize >= n /\ (p - 1) * pageSize < n

RECURSIVE PagesUpTo(_)
PagesUpTo(p) ==
    IF p = 0 THEN <<>>
    ELSE PagesUpTo(p - 1) \o PaginatedMemo(processedData, p, currentPageSize)

\* C1: in client mode the visible page is rows [(currentPage-1)*pageSize,
\* currentPage*pageSize) of the dataset after search, filters and sort; every
\* visible row satisfies the search term and all active filters; the pages
\* concatenated give exactly the processed data
C1_VisiblePageIsSliceOfProcessed ==
    isStatic =>
        LET first == (currentPage - 1) * currentPageSize
            count == IF Len(QueryResult) <= first THEN 0
                     ELSE Min(currentPageSize, Len(QueryResult) - first)
        IN /\ processedData = QueryResult
           /\ Len(paginatedData) = count
           /\ \A k \in 1..count : paginatedData[k] = QueryResult[first + k]
           /\ \A k \in 1..Len(paginatedData) : SatisfiesQuery(paginatedData[k])
           /\ PagesUpTo(PagesOf(Len(processedData), currentPageSize)) = processedData

\* a second page of one row, of a dataset a search term and a filter have
\* narrowed and a sort has ordered
C1_Witness ==
    /\ isStatic
    /\ searchTerm # <<>>
    /\ activeFilters # <<>>
    /\ sortConfig.column # ""
    /\ currentPage = 2
    /\ Len(paginatedData) = 1
    /\ Len(processedData) < Len(staticData)

ResettingOps == {"setSearchTerm", "addFilter", "removeFilter", "clearFilters", "setPageSize"}

\* C2: immediately after setSearchTerm, addFilter, removeFilter, clearFilters
\* or setPageSize, currentPage is 1; in server mode the stored continuation
\* token is unset and the token history is empty
C2_ResetAfterQueryChange ==
    lastOp.name \in ResettingOps =>
        /\ currentPage = 1
        /\ ~isStatic => (continuationToken = NoToken /\ tokenHistory = <<>>)

\* setSearchTerm has just been called with the term already set, in server
\* mode, while the second page of the endpoint was displayed
C2_Witness ==
    /\ ServerMode
    /\ lastOp.name = "setSearchTerm"
    /\ issued = <<>>
    /\ lastServerResponse # <<>>
    /\ lastServerResponse[1].ContinuationToken > ServerPageSize
    /\ continuationToken = NoToken

\* C3: in server mode every addFilter, removeFilter or clearFilters call and
\* every setSearchTerm call that changes the term triggers exactly one fetch,
\* whose request carries the new search term, the new filter list and no
\* continuation token
C3_QueryChangeFetchesOnce ==
    [][(/\ ServerMode
        /\ \/ lastOp'.name \in {"addFilter", "removeFilter", "clearFilters"}
           \/ lastOp'.name = "setSearchTerm" /\ searchTerm' # searchTerm)
       => /\ Len(issued') = 1
          /\ Len(inflight') = Len(inflight) + 1
          /\ inflight'[Len(inflight')].request = issued'[1]
          /\ issued'[1].search = searchTerm'
          /\ issued'[1].filters = activeFilters'
          /\ issued'[1].continuationToken = NoToken]_vars

\* addFilter has just issued a request that carries a search term and a filter
C3_Witness ==
    /\ ServerMode
    /\ lastOp.name = "addFilter"
    /\ Len(issued) = 1
    /\ issued[1].search # <<>>
    /\ issued[1].filters # <<>>
    /\ issued[1].continuationToken = NoToken

\* the state a client-mode navigation that finds its guard false leaves alone
C4_GridState ==
    <<loading, error, serverData, lastServerResponse, searchTerm, activeFilters,
      sortConfig, selectedRows, currentPage, currentPageSize, continuationToken,
      tokenHistory, inflight>>

\* C4: in client mode navigateNext moves to currentPage+1 exactly when
\* currentPage < totalPages and navigatePrevious to currentPage-1 exactly when
\* currentPage > 1; when the guard is false the call changes no state and
\* fires no callback
C4_ClientNavigation ==
    [][isStatic =>
         /\ lastOp'.name = "navigateNext" =>
                IF currentPage < PagesOf(Len(processedData), currentPageSize)
                THEN /\ currentPage' = currentPage + 1
                     /\ Len(fired') = 1 /\ fired'[1].cb = "onPageChange"
                ELSE /\ UNCHANGED C4_GridState
                     /\ fired' = <<>>
         /\ lastOp'.name = "navigatePrevious" =>
                IF currentPage > 1
                THEN /\ currentPage' = currentPage - 1
                     /\ Len(fired') = 1 /\ fired'[1].cb = "onPageChange"
                ELSE /\ UNCHANGED C4_GridState
                     /\ fired' = <<>>]_vars

\* page size 1 over three rows: navigateNext was called on page 3 and left it
C4_Witness ==
    /\ isStatic
    /\ Len(processedData) = 3
    /\ currentPageSize = 1
    /\ currentPage = 3
    /\ lastOp.name = "navigateNext"
    /\ fired = <<>>

\* C5: in server mode against a deterministic endpoint, navigateNext followed
\* by navigatePrevious, both fetches succeeding and no other action in
\* between, displays the page that was displayed before navigateNext
C5_NextThenPreviousRestoresPage ==
    roundTrip.phase = 4 => paginatedData = roundTrip.rows

\* rows are in the order of the column's keys, rows without a key aside
OrderedBy(rows, column, direction) ==
    \A i, j \in 1..Len(rows) :
        (i < j /\ rows[i][column].t # "null" /\ rows[j][column].t # "null") =>
            LET c == localeCompare(toLowerCase(toString(rows[i][column])),
                                   toLowerCase(toString(rows[j][column])))
            IN IF direction = "desc" THEN c >= 0 ELSE c <= 0

\* C6: in server mode, once a sort column is set, the rows of the visible page
\* are the loaded server rows ordered by that column in the configured
\* direction
C6_ServerPageIsSorted ==
    (~isStatic /\ sortConfig.column # "") =>
        /\ paginatedData = sortData(serverData, sortConfig.column, sortConfig.direction)
        /\ OrderedBy(paginatedData, sortConfig.column, sortConfig.direction)

\* C7: the active-filter list holds at most one filter per column
C7_OneFilterPerColumn ==
    \A i, j \in 1..Len(activeFilters) :
        i # j => activeFilters[i].column # activeFilters[j].column

\* addFilter has just been called for a column while another column's filter
\* was active; the new filter is the last of the list
C7_Witness ==
    /\ lastOp.name = "addFilter"
    /\ Len(activeFilters) = 2
    /\ activeFilters[2].column = lastOp.s
    /\ activeFilters[2].operator = "eq"
    /\ activeFilters[1].column # lastOp.s

\* C8: setSort(c) sets the sort column to c, with direction desc exactly when
\* the previous sort was column c ascending and asc otherwise, and the
\* processed rows are ordered by c in that direction
C8_SortToggle ==
    /\ [](sortConfig.column # "" =>
              OrderedBy(processedData, sortConfig.column, sortConfig.direction))
    /\ [][lastOp'.name = "setSort" =>
             /\ sortConfig'.column = lastOp'.s
             /\ sortConfig'.direction =
                    (IF sortConfig.column = lastOp'.s /\ sortConfig.direction = "asc"
                     THEN "desc" ELSE "asc")]_vars

\* the second setSort("name") on three rows: Bob and bob before Amy
C8_Witness ==
    /\ isStatic
    /\ lastOp = Op("setSort", 0, "name")
    /\ sortConfig = [column |-> "name", direction |-> "desc"]
    /\ processedData = <<rowBob, rowBob2, rowAmy>>

\* C10: a failed fetch sets error to a non-empty message, notifies onDataError
\* with context data-load, and starts no fetch: the failed request leaves the
\* requests in flight and no request is issued
C10_FetchFailure ==
    [][lastOp'.name = "fetchFail" =>
         /\ error' # <<>>
         /\ error'[1] # ""
         /\ \E k \in 1..Len(fired') :
                fired'[k].cb = "onDataError" /\ fired'[k].s = "data-load"
         /\ issued' = <<>>
         /\ Len(inflight') = Len(inflight) - 1
         /\ ~loading']_vars

\* a fetch has failed with a thrown value that is no Error
C10_Witness ==
    /\ lastOp.name = "fetchFail"
    /\ error = <<"Failed to load data">>
    /\ inflight = <<>>
    /\ serverData # <<>>

\* C9: after selectAll(true) the selection is exactly the set of identifiers
\* of the rows on the visible page, and in client mode its size is the number
\* of rows on that page; after selectAll(false) the selection is empty
C9_SelectAllSelectsVisiblePage ==
    /\ lastOp = Op("selectAll", 1, "") =>
           /\ selectedRows = IdsOf(paginatedData)
           /\ isStatic => Cardinality(selectedRows) = Len(paginatedData)
    /\ lastOp = Op("selectAll", 0, "") => selectedRows = {}

\* C11: every fetch started in server mode eventually completes and its
\* completion sets loading to false: with one fetch in flight, loading = true
\* leads to loading = false
C11_LoadingEventuallyClears == loading ~> ~loading

\* C12: with a static data array supplied, even together with an endpoint, no
\* fetch is issued in any reachable state; loading stays false and error null
C12_StaticDataNeverFetches ==
    isStatic =>
        /\ issued = <<>>
        /\ inflight = <<>>
        /\ ~loading
        /\ error = <<>>

\* refresh has just been called on a grid given both static data and an
\* endpoint
C12_Witness ==
    /\ isStatic
    /\ endpoint
    /\ staticData # <<>>
    /\ lastOp.name = "refresh"
    /\ currentPageSize = 1

\* C13: in server mode setCurrentPage(n) changes no state, issues no fetch and
\* fires no onPageChange; in client mode it sets currentPage to n and fires
\* onPageChange(n)
C13_DirectPageJump ==
    [][lastOp'.name = "setCurrentPage" =>
         IF isStatic
         THEN /\ currentPage' = lastOp'.n
              /\ fired' = <<Ev("onPageChange", lastOp'.n, lastOp'.n, "")>>
              /\ issued' = <<>>
         ELSE /\ UNCHANGED <<loading, error, serverData, lastServerResponse,
                             searchTerm, activeFilters, sortConfig, selectedRows,
                             currentPage, currentPageSize, continuationToken,
                             tokenHistory, inflight>>
              /\ fired' = <<>>
              /\ issued' = <<>>]_vars

\* setCurrentPage(2) has just been called in server mode, a page being loaded
\* and more rows being available
C13_Witness ==
    /\ ServerMode
    /\ lastOp = Op("setCurrentPage", 2, "")
    /\ serverData # <<>>
    /\ lastServerResponse # <<>>
    /\ lastServerResponse[1].HasMore
    /\ currentPage = 1

\* C14: in client mode refresh() resets the search term, the filters, the sort
\* and the page and issues no fetch; in server mode it issues one fetch with
\* no continuation token and clears the token history
C14_Refresh ==
    [][lastOp'.name = "refresh" =>
         /\ isStatic =>
                /\ searchTerm' = <<>>
                /\ activeFilters' = <<>>
                /\ sortConfig' = [column |-> "", direction |-> "asc"]
                /\ currentPage' = 1
                /\ issued' = <<>>
                /\ inflight' = inflight
         /\ ServerMode =>
                /\ Len(issued') = 1
                /\ Len(inflight') = Len(inflight) + 1
                /\ inflight'[Len(inflight')].request = issued'[1]
                /\ issued'[1].continuationToken = NoToken
                /\ tokenHistory' = <<>>
                /\ continuationToken' = NoToken]_vars

\* refresh has just been called in server mode while a later page was
\* displayed and the history held a token
C14_Witness ==
    /\ ServerMode
    /\ lastOp.name = "refresh"
    /\ Len(issued) = 1
    /\ lastServerResponse # <<>>
    /\ lastServerResponse[1].ContinuationToken > ServerPageSize
    /\ tokenHistory = <<>>


\* C15: for every operator and every data type, compareValues returns false
\* on a null column value, and the filter step of the processed data keeps
\* no row whose value on the filtered column is null.
C15_NullValueIsExcluded ==
    /\ (calc.fn = "compareValues" /\ calc.done /\ calc.args.dataValue.t = "null")
           => calc.out = FALSE
    /\ (calc.fn = "filter" /\ calc.done)
           => \A i \in 1..Len(calc.out) :
                  calc.out[i][calc.args.filter.column].t # "null"

\* a filter step that dropped a row with a null value and kept another row
C15_Witness ==
    /\ calc.fn = "filter" /\ calc.done
    /\ \E i \in 1..Len(calc.args.rows) :
           calc.args.rows[i][calc.args.filter.column].t = "null"
    /\ calc.out # <<>>


\* the sequence in reverse order
Reverse(seq) == [i \in 1..Len(seq) |-> seq[Len(seq) + 1 - i]]

\* the key sortData compares: the lower-cased string of the column value
SortKey(row, sortColumn) == toLowerCase(toString(row[sortColumn]))
SortKeys(data, sortColumn) == [i \in 1..Len(data) |-> SortKey(data[i], sortColumn)]

\* a sortData call on a data set without null in the sort column
SortedWithoutNull ==
    /\ calc.fn = "sortData" /\ calc.done
    /\ \A i \in 1..Len(calc.args.data) : calc.args.data[i][calc.args.sortColumn].t # "null"

\* no two distinct rows of the data set share a key
DistinctKeys ==
    \A i, j \in 1..Len(calc.args.data) :
        (calc.args.data[i] # calc.args.data[j])
            => SortKey(calc.args.data[i], calc.args.sortColumn)
                   # SortKey(calc.args.data[j], calc.args.sortColumn)

C17_CasingInsensitive ==
    (calc.fn = "bothCasings" /\ calc.done) =>
        /\ calc.out.pascal = calc.out.camel
        /\ calc.out.camel = Normalized(calc.args.items, calc.args.token,
                                       calc.args.hasMore, calc.args.count)

\* both spellings of a reply with rows, a further page, a count and a token
\* were normalized
C17_Witness ==
    /\ calc.fn = "bothCasings" /\ calc.done
    /\ calc.args.items # <<>> /\ calc.args.hasMore
    /\ calc.args.count = 5 /\ calc.args.token # NoToken
    /\ calc.out.camel.Items = calc.args.items


\* the reply holds an array under one of the item keys, or is an array
HoldsItemArray(data) ==
    \/ data.t = "arr"
    \/ /\ data.t = "obj"
       /\ getValue(data.f, ItemKeys).t = "arr"

\* C18: mapServerResponse returns a normalized response for every input
\* (null, undefined, primitives, arrays, objects of unrecognized shape): it
\* never throws, and the item list is empty when the reply holds no item
\* array.
C18_NormalizerNeverThrows ==
    (calc.fn = "mapServerResponse" /\ calc.done) =>
        /\ ~calc.out.threw
        /\ ~HoldsItemArray(calc.args.data) => calc.out.Items = <<>>


\* the rows of data whose value on column is the boolean b
RECURSIVE RowsWhere(_, _, _)
RowsWhere(data, column, b) ==
    IF data = <<>> THEN <<>>
    ELSE (IF Head(data)[column] = Bool(b) THEN <<Head(data)>> ELSE <<>>)
         \o RowsWhere(Tail(data), column, b)

\* C19: while the only active filter is a boolean filter submitted from the
\* True/False select (value 'true' or 'false'), the processed data are
\* exactly the rows whose column value has the chosen truth value: False
\* keeps the rows whose value is false and drops the rows whose value is true.
C19_BooleanFilterFromForm ==
    (/\ Len(activeFilters) = 1
     /\ activeFilters[1].dataType = "boolean"
     /\ activeFilters[1].value \in {trueStr, falseStr})
        => processedData = RowsWhere(staticData, activeFilters[1].column,
                                     activeFilters[1].value = trueStr)


\* no row object occurs twice in the data the grid holds
DistinctRowObjects ==
    \A i, j \in 1..Len(sourceData) : i # j => sourceData[i].ref # sourceData[j].ref

\* the onBulkDelete calls of the last handler
BulkDeleteCalls == {i \in 1..Len(fired) : fired[i].cb = "onBulkDelete"}

\* C20: after a click on the bulk-delete button, onBulkDelete was not invoked
\* when the selection is empty or the dialog was declined; when it was
\* invoked, the number of rows passed is the selection count announced on
\* the button and in the dialog (stated for data without a row object that
\* occurs twice).
C20_BulkDelete ==
    (lastOp.name = "handleDelete" /\ DistinctRowObjects) =>
        /\ (selectedRows = {} \/ lastOp.n = Declined) => BulkDeleteCalls = {}
        /\ \A i \in BulkDeleteCalls : fired[i].n = Cardinality(selectedRows)


\* the onPageChange calls among the callbacks cbs
PageChangeCalls(cbs) == {i \in 1..Len(cbs) : cbs[i].cb = "onPageChange"}

\* a navigateNext or navigatePrevious step that passes its guard
NavigationStep ==
    \/ lastOp' = Op("navigateNext", 0, "") /\ paginationInfo.hasNext
    \/ lastOp' = Op("navigatePrevious", 0, "") /\ paginationInfo.hasPrevious

\* C21: every navigateNext or navigatePrevious that passes its guard, with
\* static data or with an endpoint, invokes onPageChange exactly once, with
\* the new page number and pagination info whose currentPage is that number.
C21_NavigationNotifiesPageChange ==
    [][(NavigationStep /\ (isStatic \/ endpoint)) =>
          /\ Cardinality(PageChangeCalls(fired')) = 1
          /\ \A i \in PageChangeCalls(fired') :
                 /\ fired'[i].n = fired'[i].m
                 /\ isStatic => fired'[i].n = currentPage'
                 /\ fired'[i].n = currentPage + (IF lastOp'.name = "navigateNext"
                                                  THEN 1 ELSE -1)]_vars


\* the completion, in this step, of a fetch started by navigateNext
NextFetchEnds(how) ==
    /\ lastOp'.name = how
    /\ inflight[lastOp'.n].navigationDirection = "next"

\* C22: in server mode with hasNext true, navigateNext issues exactly one
\* fetch, whose request carries the stored continuation token, which is the
\* token returned with the displayed page; when that fetch succeeds the
\* carried token is appended to the token history and the stored token
\* becomes the token of the response (if it has one); when it fails the
\* history is unchanged.
C22_NavigateNextToken ==
    [][/\ (lastOp' = Op("navigateNext", 0, "") /\ ServerMode /\ paginationInfo.hasNext) =>
            /\ Len(issued') = 1
            /\ issued'[1].continuationToken = continuationToken
            /\ continuationToken = lastServerResponse[1].ContinuationToken
       /\ NextFetchEnds("fetchSucceed") =>
            /\ tokenHistory' = Append(tokenHistory,
                                      inflight[lastOp'.n].request.continuationToken)
            /\ lastServerResponse'[1].ContinuationToken # NoToken =>
                   continuationToken' = lastServerResponse'[1].ContinuationToken
       /\ NextFetchEnds("fetchFail") => tokenHistory' = tokenHistory]_vars


\* C23: when a fetch that a later-issued fetch overtook succeeds, its
\* response replaces the displayed rows and the last-response state (count,
\* hasMore, token): the stale completion is not discarded.
C23_StaleResponseOverwrites ==
    [][(lastOp'.name = "fetchSucceed" /\ inflight[lastOp'.n].overtaken) =>
          LET response == mapServerResponse(ServerReply(inflight[lastOp'.n].request))
          IN /\ serverData' = response.Items
             /\ lastServerResponse' = <<response>>]_vars

\* the fetch of the mount completed after the fetch of a later search: the
\* grid shows rows that do not match the search term
C23_Witness ==
    /\ lastOp = Op("fetchSucceed", 1, "overtaken")
    /\ inflight = <<>>
    /\ searchTerm # <<>>
    /\ \E i \in 1..Len(serverData) : ~MatchesSearch(serverData[i], searchTerm)
    /\ lastServerResponse[1].Count = Len(ServerRows)


\* C26: in server mode loading is true whenever at least one fetch is in
\* flight; the completion of one of two overlapping fetches does not set it
\* to false.
C26_LoadingWhileInFlight == (ServerMode /\ inflight # <<>>) => loading


\* C24: right after a server fetch has replaced the dataset, nothing has been
\* selected in the new snapshot yet, so no row of it is reported as selected:
\* the identifiers selected in the previous snapshot match no row.
C24_StaleSelectionNotMatched ==
    (ServerMode /\ lastOp.name = "fetchSucceed") => selectedData = <<>>


\* C25: without static data setSort issues no fetch and leaves currentPage,
\* the continuation token, the token history, the loaded rows and the
\* requests in flight unchanged; with static data it sets currentPage to 1;
\* in both modes the search term, the filters, the page size and the
\* selection are unchanged.
C25_SetSortFrame ==
    [][lastOp'.name = "setSort" =>
          /\ issued' = <<>>
          /\ UNCHANGED <<inflight, loading, error, serverData, lastServerResponse,
                         continuationToken, tokenHistory, searchTerm, activeFilters,
                         selectedRows, currentPageSize>>
          /\ currentPage' = (IF isStatic THEN 1 ELSE currentPage)
          /\ sortConfig'.column = lastOp'.s]_vars

\* a sort on a later server page, reached with a token in the history
C25_Witness ==
    /\ ServerMode /\ lastOp.name = "setSort"
    /\ sortConfig.column = "age"
    /\ tokenHistory # <<>> /\ continuationToken # NoToken
    /\ serverData # <<>> /\ inflight = <<>>


\* C27: in server mode, when the last outstanding fetch completes after a
\* pagination-resetting action (no navigation having been invoked since),
\* the token history is empty and hasPrevious is false, also when a
\* navigateNext fetch was in flight at the moment of the reset.
C27_HistoryEmptyAfterReset ==
    [][(/\ lastOp'.name \in {"fetchSucceed", "fetchFail"}
        /\ afterReset /\ Len(inflight) = 1) =>
           tokenHistory' = <<>>]_vars


\* C28: in server mode, whenever no fetch is in flight and the displayed page
\* came from a response that carried a continuation token, the stored
\* continuation token is that token, so that a navigateNext from there
\* requests the page after the displayed one.
C28_StoredTokenIsDisplayedPageToken ==
    (/\ ServerMode /\ inflight = <<>>
     /\ lastServerResponse # <<>>
     /\ lastServerResponse[1].ContinuationToken # NoToken)
        => continuationToken = lastServerResponse[1].ContinuationToken


\* C29: when the fetch of a navigatePrevious fails, the stored continuation
\* token and the token history are what they were before the call: the
\* token the call's closure held, and the history with the token the call
\* popped back in place.
C29_FailedPreviousKeepsPagination ==
    [][(/\ lastOp'.name = "fetchFail"
        /\ inflight[lastOp'.n].navigationDirection = "previous") =>
           /\ continuationToken' = inflight[lastOp'.n].continuationToken
           /\ tokenHistory' = Append(tokenHistory,
                                     inflight[lastOp'.n].request.continuationToken)]_vars


\* C30: with static data and without direct page jumps, currentPage is at
\* least 1 and at most max(1, totalPages); the visible page is empty only
\* when the processed data is empty, and end - start + 1 is the number of
\* visible rows whenever there are any.
C30_PageWithinRange ==
    isStatic =>
        /\ 1 <= currentPage
        /\ currentPage <= (IF paginationInfo.totalPages > 1
                           THEN paginationInfo.totalPages ELSE 1)
        /\ (paginatedData = <<>>) <=> (processedData = <<>>)
        /\ paginatedData # <<>> =>
               paginationInfo.end - paginationInfo.start + 1 = Len(paginatedData)

\* a last page that is not full, reached by navigateNext
C30_Witness ==
    /\ isStatic /\ lastOp.name = "navigateNext"
    /\ currentPage = 2 /\ currentPageSize = 2
    /\ Len(paginatedData) = 1
    /\ paginationInfo.totalPages = 2

====
